---- MODULE Spec2Model ----
(***************************************************************************)
(* A model of PyTyle's window lifecycle (PyTyle/Window.py) and of the      *)
(* Vertical and Horizontal master/slave layouts (PyTyle/Tilers).           *)
(*                                                                         *)
(* Conventions.                                                            *)
(*  - Pixel quantities are integers; `/` between two ints is the floor     *)
(*    division the layouts rely on, int() truncates toward zero.           *)
(*  - A proportion factor is kept as an integer numerator over FactorDen   *)
(*    (one unit is the default step 0.05), i.e. exact decimal arithmetic.  *)
(*  - Screen, Viewport, State, TileStorage and the Tile/TileDefault        *)
(*    skeleton are not part of the available sources; their operations are *)
(*    modelled from the written specification and are marked so in the     *)
(*    model map.                                                           *)
(***************************************************************************)
EXTENDS Integers, Sequences, FiniteSets, TLC

VARIABLES
    screens,    \* State.get_desktops(): desktop -> viewport -> screen, flattened
    universe,   \* what the probe / the command layer may hand to the handlers
    windows,    \* State's window table: tracked id -> Window object
    members,    \* screen.windows, per screen, in insertion order
    dirty,      \* per screen "needs retiling" flag
    masters,    \* storage.get_masters(), per screen
    slaves,     \* storage.get_slaves(), per screen
    factor,     \* state.get('width_factor') / 'height_factor', per screen
    listening,  \* handles passed to PROBE.window_listen
    active,     \* State's active-window reference (0: none)
    batch,      \* lifecycle events handled since all screens were last clean
    lastOp,     \* the handler that ran last, with its arguments
    calls,      \* Window.resize calls made by the last handler
    sent,       \* PROBE.window_resize requests issued by the last handler
    marks,      \* needs_tiling() calls made by the last handler, per screen
    passes,     \* _tile() runs made by the last handler
    pending     \* admissions/deletes/relocations/hidden changes since last tile()

vars == <<screens, universe, windows, members, dirty, masters, slaves, factor,
          listening, active, batch, lastOp, calls, sent, marks, passes,
          pending>>

(***************************************************************************)
(* Bounds of the exploration                                               *)
(***************************************************************************)
MaxWindows == 3      \* window identifiers the probe may report (one screen)
MaxLifeWindows == 1  \* window identifiers the probe may report (three screens)
FactorDown == 1      \* steps of 0.05 explored below the configured factor
FactorUp == 1        \* steps of 0.05 explored above the configured factor
MaxBatch == 1        \* lifecycle events between two rounds of tile() (one screen)
MaxLifeBatch == 2    \* lifecycle events between two rounds of tile() (three screens)

FactorDen == 20      \* 1 / 0.05, the default step of master_increase

(***************************************************************************)
(* Pure helpers                                                            *)
(***************************************************************************)
\* int(): truncation toward zero of num / den (den > 0)
Trunc(num, den) == IF num >= 0 THEN num \div den ELSE 0 - ((0 - num) \div den)

RECURSIVE SeqRemove(_, _)
SeqRemove(seq, e) ==
    IF seq = <<>> THEN <<>>
    ELSE IF Head(seq) = e THEN SeqRemove(Tail(seq), e)
         ELSE <<Head(seq)>> \o SeqRemove(Tail(seq), e)

SeqSet(seq) == {seq[i] : i \in 1 .. Len(seq)}

\* the elements of a set of integers as an ascending sequence
RECURSIVE Sorted(_)
Sorted(S) ==
    IF S = {} THEN <<>>
    ELSE LET m == CHOOSE x \in S : \A y \in S : x <= y
         IN <<m>> \o Sorted(S \ {m})

(***************************************************************************)
(* Class tags and filters: a string is a sequence of one-letter strings    *)
(***************************************************************************)
Lower(str) ==
    [i \in 1 .. Len(str) |->
        CASE str[i] = "X" -> "x"
          [] str[i] = "T" -> "t"
          [] str[i] = "G" -> "g"
          [] OTHER -> str[i]]

\* str.startswith(sub) in place of str.find(sub) != -1
ContainsAtStart(str, sub) ==
    /\ Len(sub) <= Len(str)
    /\ \A j \in 1 .. Len(sub) : str[j] = sub[j]

\* str.find(sub) != -1
Contains(str, sub) ==
    \E i \in 0 .. (Len(str) - Len(sub)) :
        \A j \in 1 .. Len(sub) : str[i + j] = sub[j]

\* Config.filter()
ConfigFilter == universe.filters

NoClass == <<>>
XTermClass == << <<"x", "t">>, <<"X", "T">> >>
GimpClass == << <<"g">>, <<"G">> >>

Filtered(winclass) ==
    IF winclass # NoClass
    THEN \E k \in 1 .. Len(ConfigFilter) : \E i \in {1, 2} :
            Contains(Lower(winclass[i]), Lower(ConfigFilter[k]))
    ELSE FALSE

(***************************************************************************)
(* Location hierarchy (Desktop -> Viewport -> Screen)                      *)
(***************************************************************************)
ScreenIds == DOMAIN screens

\* State.get_desktops(): the identifiers of the known desktops
GetDesktops == {screens[s].desktop : s \in ScreenIds}

\* viewport.is_on_viewport(x, y), for the viewport of screen s
IsOnViewport(s, x, y) ==
    /\ x >= screens[s].vx /\ x < screens[s].vx + screens[s].vwidth
    /\ y >= screens[s].vy /\ y < screens[s].vy + screens[s].vheight

\* screen.is_on_screen(x, y)
IsOnScreen(s, x, y) ==
    /\ x >= screens[s].x /\ x < screens[s].x + screens[s].width
    /\ y >= screens[s].y /\ y < screens[s].y + screens[s].height

\* screen.is_in_screen(x, y, width, height)
IsInScreen(s, x, y, width, height) ==
    /\ x >= screens[s].x /\ y >= screens[s].y
    /\ x + width <= screens[s].x + screens[s].width
    /\ y + height <= screens[s].y + screens[s].height

\* screen.get_workarea()
GetWorkarea(s) ==
    [x |-> screens[s].wx, y |-> screens[s].wy,
     width |-> screens[s].wwidth, height |-> screens[s].wheight]

\* The screens visited by the nested viewport / screen loops of load_window
\* and refresh for a desktop and a position, in visiting order.
MatchingScreens(desktop, x, y) ==
    Sorted({s \in ScreenIds : /\ screens[s].desktop = desktop
                              /\ IsOnViewport(s, x, y)
                              /\ IsOnScreen(s, x, y)})

\* screen.add_window(win) / screen.delete_window(win) on the membership table
AddWindow(mem, s, w) ==
    [mem EXCEPT ![s] = IF w \in SeqSet(@) THEN @ ELSE Append(@, w)]

DeleteWindow(mem, s, w) == [mem EXCEPT ![s] = SeqRemove(@, w)]

\* screen.needs_tiling(): the flag after the screens in S were marked
NeedsTiling(flags, S) == [s \in DOMAIN flags |-> flags[s] \/ s \in S]

\* State.reload_active(): the active reference follows the probe's active
\* window when that window is tracked, and is cleared otherwise
ReloadActive(ws, a) == IF a \in DOMAIN ws THEN a ELSE 0

Tracked == DOMAIN windows

\* the window table with w mapped to win / with w dropped
Put(ws, w, win) == [v \in DOMAIN ws \cup {w} |-> IF v = w THEN win ELSE ws[v]]
Drop(ws, w) == [v \in DOMAIN ws \ {w} |-> ws[v]]

Bump(pend, S) ==
    [s \in DOMAIN pend |-> IF s \in S THEN pend[s] + 1 ELSE pend[s]]

NoMarks == [s \in ScreenIds |-> 0]

Op(op, win, screen, args) ==
    [op |-> op, win |-> win, screen |-> screen, args |-> args]

(***************************************************************************)
(* Window entity                                                           *)
(***************************************************************************)
\* Window.update_attributes(attrs)
UpdateAttributes(win, attrs) ==
    [win EXCEPT !.width = attrs.width, !.height = attrs.height,
                !.desktop = attrs.desktop, !.winclass = attrs.winclass,
                !.hidden = attrs.hidden]

\* Window.__init__(screen, attrs)
NewWindow(s, attrs) ==
    [x |-> 0, y |-> 0, width |-> attrs.width, height |-> attrs.height,
     desktop |-> attrs.desktop, winclass |-> attrs.winclass,
     hidden |-> attrs.hidden, screen |-> s]

\* The attribute snapshots the probe may return
Attrs(p, z, d, c, h, pop) ==
    [x |-> p[1], y |-> p[2], width |-> z[1], height |-> z[2], desktop |-> d,
     winclass |-> c, hidden |-> h, popup |-> pop]

\* PROBE.get_window_by_id(id) for a window not seen before
NewAttrs ==
    {Attrs(p, z, d, c, h, pop) :
        p \in universe.positions, z \in universe.sizes, d \in universe.newDesktops,
        c \in universe.classes, h \in universe.hiddens, pop \in universe.popups}

\* PROBE.get_window(xobj) for a tracked window.  The class tag of a mapped
\* window does not change (ICCCM 4.1.2.5), so the probe reports the tag it
\* had at load time.
ProbeAttrs(w) ==
    {Attrs(p, z, d, windows[w].winclass, h, FALSE) :
        p \in universe.positions, z \in universe.sizes, d \in universe.desktops,
        h \in universe.hiddens}

\* State.scan_new_windows(): identifiers are interchangeable, so the probe
\* reports the least one that is not tracked
ScanNewWindows ==
    {id \in universe.ids \ Tracked : \A o \in universe.ids \ Tracked : id <= o}

\* PROBE.get_active_window_id(): some window, or 0 for none
ActiveIds == universe.actives

\* load_window, lines 51 and 57: TRUE for a snapshot of a popup, of a window on
\* a desktop State does not know, or of a window the filter matches
LoadRejects(attrs) ==
    \/ attrs.popup
    \/ attrs.desktop \notin GetDesktops
    \/ Filtered(attrs.winclass)

\* load_window, lines 51-55: the screens on which a Window is constructed
LoadFound(attrs) ==
    IF ~attrs.popup /\ attrs.desktop \in GetDesktops
    THEN MatchingScreens(attrs.desktop, attrs.x, attrs.y)
    ELSE <<>>

\* load_window without the filter check of line 57
LoadAddedUnfiltered(attrs) == LoadFound(attrs) # <<>>

\* load_window, line 57: TRUE when the constructed Window is added to a screen
LoadAdded(attrs) == LoadFound(attrs) # <<>> /\ ~Filtered(attrs.winclass)

\* Window.load_window(window_id), for an identifier State.scan_new_windows()
\* reports as new; a is PROBE.get_active_window_id()
LoadWindow(id, attrs, a) ==
    LET found == LoadFound(attrs)
        added == LoadAdded(attrs)
        last == found[Len(found)]
        S == IF added THEN SeqSet(found) ELSE {}
    IN  /\ id \in universe.ids
        /\ id \notin Tracked
        /\ batch < universe.maxBatch
        /\ batch' = batch + 1
        /\ listening' = IF found # <<>> THEN listening \cup {id} ELSE listening
        /\ windows' = IF added THEN Put(windows, id, NewWindow(last, attrs))
                      ELSE windows
        /\ members' = [s \in ScreenIds |->
                         IF s \in S THEN AddWindow(members, s, id)[s] ELSE members[s]]
        /\ marks' = [s \in ScreenIds |-> IF s \in S THEN 1 ELSE 0]
        /\ dirty' = NeedsTiling(dirty, S)
        /\ pending' = Bump(pending, S)
        /\ active' = IF added /\ id = a THEN id ELSE active
        /\ lastOp' = Op("load_window", id, IF added THEN last ELSE 0,
                        <<attrs.x, attrs.y, LoadRejects(attrs)>>)
        /\ calls' = <<>> /\ sent' = <<>> /\ passes' = 0
        /\ UNCHANGED <<screens, universe, masters, slaves, factor>>

\* delete with needs_tiling() called on every screen
DeleteMarksAll(s) == ScreenIds

\* delete without the needs_tiling() call
DeleteMarksNone(s) == {}

\* delete, line 103: the screens delete() marks for retiling
DeleteMarks(s) == {s}

\* Window.delete(); a is PROBE.get_active_window_id()
Delete(w, a) ==
    LET s == windows[w].screen
        ws == Drop(windows, w)
    IN  /\ w \in Tracked
        /\ batch < universe.maxBatch
        /\ batch' = batch + 1
        /\ members' = DeleteWindow(members, s, w)
        /\ marks' = [t \in ScreenIds |-> IF t \in DeleteMarks(s) THEN 1 ELSE 0]
        /\ dirty' = NeedsTiling(dirty, DeleteMarks(s))
        /\ pending' = Bump(pending, {s})
        /\ windows' = ws
        /\ active' = ReloadActive(ws, a)
        /\ lastOp' = Op("delete", w, s, <<active = w>>)
        /\ calls' = <<>> /\ sent' = <<>> /\ passes' = 0
        /\ UNCHANGED <<screens, universe, masters, slaves, factor, listening>>

\* the test of line 161 reduced to the desktop comparison
MovedDesktopOnly(oldscreen, desktop, x, y) ==
    screens[oldscreen].desktop # desktop

\* refresh, line 161: TRUE when the window has to be looked up again
Moved(oldscreen, desktop, x, y) ==
    \/ screens[oldscreen].desktop # desktop
    \/ ~IsOnViewport(oldscreen, x, y)
    \/ ~IsOnScreen(oldscreen, x, y)

\* the move without oldscreen.delete_window(self)
RefreshMembersKeepOld(w, oldscreen, found) ==
    [s \in ScreenIds |->
        IF s \in SeqSet(found) THEN AddWindow(members, s, w)[s] ELSE members[s]]

\* refresh, lines 166-167: the memberships after the move to the screens found
RefreshMembers(w, oldscreen, found) ==
    [s \in ScreenIds |->
        IF found = <<>> THEN members[s]
        ELSE IF s \in SeqSet(found) THEN AddWindow(members, s, w)[s]
        ELSE IF s = oldscreen THEN DeleteWindow(members, s, w)[s]
        ELSE members[s]]

\* refresh, line 170: the owning screen after the move
RefreshScreen(oldscreen, found) ==
    IF found # <<>> THEN found[Len(found)] ELSE oldscreen

\* the needs_tiling() calls without the elif of line 171
RefreshMarksNoHidden(oldscreen, found, moved, hiddenChanged) ==
    [s \in ScreenIds |->
        IF found # <<>>
        THEN (IF s \in SeqSet(found) THEN 1 ELSE 0)
             + (IF s = oldscreen THEN Len(found) ELSE 0)
        ELSE 0]

\* the needs_tiling() calls without oldscreen.needs_tiling()
RefreshMarksNewOnly(oldscreen, found, moved, hiddenChanged) ==
    [s \in ScreenIds |->
        IF found # <<>>
        THEN (IF s \in SeqSet(found) THEN 1 ELSE 0)
        ELSE IF ~moved /\ hiddenChanged /\ s = oldscreen THEN 1 ELSE 0]

\* refresh, lines 168-169 and 171-172: the needs_tiling() calls per screen
RefreshMarks(oldscreen, found, moved, hiddenChanged) ==
    [s \in ScreenIds |->
        IF found # <<>>
        THEN (IF s \in SeqSet(found) THEN 1 ELSE 0)
             + (IF s = oldscreen THEN Len(found) ELSE 0)
        ELSE IF ~moved /\ hiddenChanged /\ s = oldscreen THEN 1 ELSE 0]

\* the probe's snapshot passed on as reported
RefreshUpdateAsReported(win, upd) == upd

\* refresh, lines 157-158: the snapshot with the window's own width and height
RefreshUpdate(win, upd) ==
    [upd EXCEPT !.width = win.width, !.height = win.height]

\* Window.refresh(); upd is PROBE.get_window(self.xobj), a is
\* PROBE.get_active_window_id().  A desktop that State does not know makes
\* the lookup of line 162 raise after the attributes were updated.
Refresh(w, upd, a) ==
    LET win == windows[w]
        oldscreen == win.screen
        oldstate == win.hidden
        update == RefreshUpdate(win, upd)
        updated == UpdateAttributes(win, update)
        moved == Moved(oldscreen, updated.desktop, update.x, update.y)
        raises == moved /\ updated.desktop \notin GetDesktops
        found == IF moved /\ ~raises
                 THEN MatchingScreens(updated.desktop, update.x, update.y)
                 ELSE <<>>
        hiddenChanged == oldstate # updated.hidden
        events == IF found # <<>> THEN SeqSet(found) \cup {oldscreen}
                  ELSE IF ~moved /\ hiddenChanged THEN {oldscreen} ELSE {}
        called == RefreshMarks(oldscreen, found, moved, hiddenChanged)
        ws == Put(windows, w,
                  [updated EXCEPT !.screen = RefreshScreen(oldscreen, found)])
    IN  /\ w \in Tracked
        /\ batch < universe.maxBatch
        /\ batch' = batch + 1
        /\ windows' = ws
        /\ members' = RefreshMembers(w, oldscreen, found)
        /\ marks' = called
        /\ dirty' = NeedsTiling(dirty, {s \in ScreenIds : called[s] > 0})
        /\ pending' = Bump(pending, events)
        /\ active' = IF ~raises /\ w = a THEN ReloadActive(ws, a) ELSE active
        /\ lastOp' = Op("refresh", w, oldscreen,
                        <<upd.x, upd.y, upd.width, upd.height, upd.desktop,
                          upd.hidden>>)
        /\ calls' = <<>> /\ sent' = <<>> /\ passes' = 0
        /\ UNCHANGED <<screens, universe, masters, slaves, factor, listening>>

\* "except Exception:" in place of the bare except
LivesPropagatesNonErrors(outcome) == outcome = "KeyboardInterrupt"

\* Window.lives(), line 122: the bare except lets no failure through
LivesPropagates(outcome) == FALSE

\* Window.lives(), lines 120-124: the value returned for an outcome of
\* PROBE.get_window_geometry
LivesReturn(outcome) == outcome = "ok"

\* Window.lives() on a tracked window
Lives(w, outcome) ==
    /\ w \in Tracked
    /\ lastOp' = Op("lives", w, windows[w].screen,
                    <<outcome, LivesReturn(outcome), LivesPropagates(outcome)>>)
    /\ calls' = <<>> /\ sent' = <<>> /\ marks' = NoMarks /\ passes' = 0
    /\ UNCHANGED <<screens, universe, windows, members, dirty, masters, slaves,
                   factor, listening, active, batch, pending>>

\* Window.filtered() on a window with the class tag winclass
FilteredQuery(winclass) ==
    /\ lastOp' = Op("filtered", 0, 0, <<winclass, Filtered(winclass)>>)
    /\ calls' = <<>> /\ sent' = <<>> /\ marks' = NoMarks /\ passes' = 0
    /\ UNCHANGED <<screens, universe, windows, members, dirty, masters, slaves,
                   factor, listening, active, batch, pending>>

\* One call of Window.resize
Call(w, x, y, width, height) ==
    [win |-> w, x |-> x, y |-> y, width |-> width, height |-> height]

\* the guard with "< 0" in place of "< 1"
AcceptedZeroSize(ws, c) ==
    ~(c.width < 0 \/ c.height < 0
      \/ ~IsInScreen(ws[c.win].screen, c.x, c.y, c.width, c.height))

\* The guard of Window.resize: TRUE when the call goes through
Accepted(ws, c) ==
    ~(c.width < 1 \/ c.height < 1
      \/ ~IsInScreen(ws[c.win].screen, c.x, c.y, c.width, c.height))

\* Window.resize(x, y, width, height) applied to the window table
ResizeWindow(ws, c) ==
    IF ~Accepted(ws, c) THEN ws
    ELSE [ws EXCEPT ![c.win].x = c.x, ![c.win].y = c.y,
                    ![c.win].width = c.width, ![c.win].height = c.height]

\* the resize calls of a handler, applied in order
RECURSIVE ApplyCalls(_, _)
ApplyCalls(ws, cs) ==
    IF cs = <<>> THEN ws ELSE ApplyCalls(ResizeWindow(ws, Head(cs)), Tail(cs))

\* the PROBE.window_resize requests the calls cs lead to
RECURSIVE Requests(_, _)
Requests(ws, cs) ==
    IF cs = <<>> THEN <<>>
    ELSE (IF Accepted(ws, Head(cs)) THEN <<Head(cs)>> ELSE <<>>)
         \o Requests(ws, Tail(cs))

\* Window.resize(x, y, width, height) as an entry point of the command layer
Resize(w, x, y, width, height) ==
    LET c == Call(w, x, y, width, height)
    IN  /\ w \in Tracked
        /\ windows' = ResizeWindow(windows, c)
        /\ calls' = <<c>>
        /\ sent' = Requests(windows, <<c>>)
        /\ lastOp' = Op("resize", w, windows[w].screen, <<x, y, width, height>>)
        /\ marks' = NoMarks /\ passes' = 0
        /\ UNCHANGED <<screens, universe, members, dirty, masters, slaves, factor,
                       listening, active, batch, pending>>

(***************************************************************************)
(* Tile storage and the shared tiling skeleton                             *)
(***************************************************************************)
\* The windows of screen s the storage has to hold: the screen's windows
\* that are not hidden (Window.py, module docstring), in screen order
Tiling(s) == SelectSeq(members[s], LAMBDA w : ~windows[w].hidden)

\* storage.add(window): the first window of an empty master list becomes
\* a master, every other window a slave
StorageAdd(st, w) ==
    IF st.masters = <<>> THEN [st EXCEPT !.masters = <<w>>]
    ELSE [st EXCEPT !.slaves = Append(@, w)]

RECURSIVE StorageAddAll(_, _)
StorageAddAll(st, ws) ==
    IF ws = <<>> THEN st ELSE StorageAddAll(StorageAdd(st, Head(ws)), Tail(ws))

\* The storage of screen s brought up to date at the start of a tiling
\* pass: windows that left or got hidden are removed, new ones are added
SyncStorage(s) ==
    LET T == SeqSet(Tiling(s))
        keepM == SelectSeq(masters[s], LAMBDA w : w \in T)
        keepS == SelectSeq(slaves[s], LAMBDA w : w \in T)
        new == SelectSeq(Tiling(s),
                         LAMBDA w : w \notin SeqSet(keepM) \cup SeqSet(keepS))
    IN  StorageAddAll([masters |-> keepM, slaves |-> keepS], new)

\* TileDefault.help_resize(window, x, y, width, height, margin)
HelpResize(w, x, y, width, height, margin) ==
    Call(w, x + margin, y + margin, width - 2 * margin, height - 2 * margin)

(***************************************************************************)
(* Concrete layouts                                                        *)
(***************************************************************************)
\* Vertical._tile with the slave width taken from the first master's
\* stored width
VerticalTileDrift(s, ms, sl, f) ==
    LET wa == GetWorkarea(s)
        margin == screens[s].margin
        masterWidth == IF sl = <<>> THEN wa.width
                       ELSE Trunc(wa.width * f, FactorDen)
        masterHeight == IF ms = <<>> THEN wa.height ELSE wa.height \div Len(ms)
        slaveWidth == IF ms = <<>> THEN wa.width
                      ELSE wa.width - windows[ms[1]].width
        slaveHeight == IF sl = <<>> THEN wa.height ELSE wa.height \div Len(sl)
        slaveX == IF ms = <<>> THEN wa.x ELSE wa.x + masterWidth
    IN  [i \in 1 .. Len(ms) |->
            HelpResize(ms[i], wa.x, wa.y + (i - 1) * masterHeight,
                       masterWidth, masterHeight, margin)]
        \o
        [j \in 1 .. Len(sl) |->
            HelpResize(sl[j], slaveX, wa.y + (j - 1) * slaveHeight,
                       slaveWidth, slaveHeight, margin)]

\* Vertical._tile with the slave height divided by the number of masters
VerticalTileSlaveHeight(s, ms, sl, f) ==
    LET wa == GetWorkarea(s)
        margin == screens[s].margin
        masterWidth == IF sl = <<>> THEN wa.width
                       ELSE Trunc(wa.width * f, FactorDen)
        masterHeight == IF ms = <<>> THEN wa.height ELSE wa.height \div Len(ms)
        slaveWidth == IF ms = <<>> THEN wa.width ELSE wa.width - masterWidth
        slaveHeight == IF sl = <<>> \/ ms = <<>> THEN wa.height
                       ELSE wa.height \div Len(ms)
        slaveX == IF ms = <<>> THEN wa.x ELSE wa.x + masterWidth
    IN  [i \in 1 .. Len(ms) |->
            HelpResize(ms[i], wa.x, wa.y + (i - 1) * masterHeight,
                       masterWidth, masterHeight, margin)]
        \o
        [j \in 1 .. Len(sl) |->
            HelpResize(sl[j], slaveX, wa.y + (j - 1) * slaveHeight,
                       slaveWidth, slaveHeight, margin)]

\* Vertical._tile with the heights of a role rounded up
VerticalTileCeil(s, ms, sl, f) ==
    LET wa == GetWorkarea(s)
        margin == screens[s].margin
        masterWidth == IF sl = <<>> THEN wa.width
                       ELSE Trunc(wa.width * f, FactorDen)
        masterHeight == IF ms = <<>> THEN wa.height
                        ELSE (wa.height + Len(ms) - 1) \div Len(ms)
        slaveWidth == IF ms = <<>> THEN wa.width ELSE wa.width - masterWidth
        slaveHeight == IF sl = <<>> THEN wa.height
                       ELSE (wa.height + Len(sl) - 1) \div Len(sl)
        slaveX == IF ms = <<>> THEN wa.x ELSE wa.x + masterWidth
    IN  [i \in 1 .. Len(ms) |->
            HelpResize(ms[i], wa.x, wa.y + (i - 1) * masterHeight,
                       masterWidth, masterHeight, margin)]
        \o
        [j \in 1 .. Len(sl) |->
            HelpResize(sl[j], slaveX, wa.y + (j - 1) * slaveHeight,
                       slaveWidth, slaveHeight, margin)]

\* Vertical._tile: the resize calls for masters ms, slaves sl and
\* width_factor f / FactorDen on the work area wa
VerticalRects(wa, margin, ms, sl, f) ==
    LET masterWidth == IF sl = <<>> THEN wa.width
                       ELSE Trunc(wa.width * f, FactorDen)
        masterHeight == IF ms = <<>> THEN wa.height ELSE wa.height \div Len(ms)
        masterY == wa.y
        masterX == wa.x
        slaveWidth == IF ms = <<>> THEN wa.width ELSE wa.width - masterWidth
        slaveHeight == IF sl = <<>> THEN wa.height ELSE wa.height \div Len(sl)
        slaveY == wa.y
        slaveX == IF ms = <<>> THEN wa.x ELSE wa.x + masterWidth
    IN  [i \in 1 .. Len(ms) |->
            HelpResize(ms[i], masterX, masterY + (i - 1) * masterHeight,
                       masterWidth, masterHeight, margin)]
        \o
        [j \in 1 .. Len(sl) |->
            HelpResize(sl[j], slaveX, slaveY + (j - 1) * slaveHeight,
                       slaveWidth, slaveHeight, margin)]

\* Vertical._tile on screen s
VerticalTile(s, ms, sl, f) ==
    VerticalRects(GetWorkarea(s), screens[s].margin, ms, sl, f)

\* Horizontal._tile replaced by Vertical._tile
HorizontalTileUntransposed(s, ms, sl, f) == VerticalTile(s, ms, sl, f)

\* Horizontal._tile, with height_factor f / FactorDen
HorizontalTile(s, ms, sl, f) ==
    LET wa == GetWorkarea(s)
        margin == screens[s].margin
        masterWidth == IF ms = <<>> THEN wa.width ELSE wa.width \div Len(ms)
        masterHeight == IF sl = <<>> THEN wa.height
                        ELSE Trunc(wa.height * f, FactorDen)
        masterY == wa.y
        masterX == wa.x
        slaveWidth == IF sl = <<>> THEN wa.width ELSE wa.width \div Len(sl)
        slaveHeight == IF ms = <<>> THEN wa.height ELSE wa.height - masterHeight
        slaveY == IF ms = <<>> THEN wa.y ELSE wa.y + masterHeight
        slaveX == wa.x
    IN  [i \in 1 .. Len(ms) |->
            HelpResize(ms[i], masterX + (i - 1) * masterWidth, masterY,
                       masterWidth, masterHeight, margin)]
        \o
        [j \in 1 .. Len(sl) |->
            HelpResize(sl[j], slaveX + (j - 1) * slaveWidth, slaveY,
                       slaveWidth, slaveHeight, margin)]

\* the _tile hook of the layout of screen s
TileHookCalls(s, ms, sl, f) ==
    IF screens[s].tiler = "Vertical" THEN VerticalTile(s, ms, sl, f)
    ELSE HorizontalTile(s, ms, sl, f)

\* Vertical._master_increase(factor): pixels and the resize calls, for the
\* work area wa, width_factor f / FactorDen and the window table ws
VerticalIncreaseCalls(wa, f, ws, ms, sl, step) ==
    LET pixels == Trunc(((f + step) * wa.width) - (f * wa.width), FactorDen)
    IN  [j \in 1 .. Len(sl) |->
            LET slave == ws[sl[j]]
            IN  Call(sl[j], slave.x + pixels, slave.y,
                     slave.width - pixels, slave.height)]
        \o
        [i \in 1 .. Len(ms) |->
            LET master == ws[ms[i]]
            IN  Call(ms[i], master.x, master.y,
                     master.width + pixels, master.height)]

\* Vertical._master_increase(factor) on screen s
VerticalIncrease(s, step) ==
    VerticalIncreaseCalls(GetWorkarea(s), factor[s], windows, masters[s],
                          slaves[s], step)

\* Vertical._master_decrease(factor): pixels and the resize calls
VerticalDecreaseCalls(wa, f, ws, ms, sl, step) ==
    LET pixels == Trunc((f * wa.width) - ((f - step) * wa.width), FactorDen)
    IN  [j \in 1 .. Len(sl) |->
            LET slave == ws[sl[j]]
            IN  Call(sl[j], slave.x - pixels, slave.y,
                     slave.width + pixels, slave.height)]
        \o
        [i \in 1 .. Len(ms) |->
            LET master == ws[ms[i]]
            IN  Call(ms[i], master.x, master.y,
                     master.width - pixels, master.height)]

\* Vertical._master_decrease(factor) on screen s
VerticalDecrease(s, step) ==
    VerticalDecreaseCalls(GetWorkarea(s), factor[s], windows, masters[s],
                          slaves[s], step)

\* Horizontal._master_increase(factor)
HorizontalIncrease(s, step) ==
    LET wa == GetWorkarea(s)
        pixels == Trunc(((factor[s] + step) * wa.height) - (factor[s] * wa.height),
                        FactorDen)
    IN  [j \in 1 .. Len(slaves[s]) |->
            LET slave == windows[slaves[s][j]]
            IN  Call(slaves[s][j], slave.x, slave.y + pixels,
                     slave.width, slave.height - pixels)]
        \o
        [i \in 1 .. Len(masters[s]) |->
            LET master == windows[masters[s][i]]
            IN  Call(masters[s][i], master.x, master.y,
                     master.width, master.height + pixels)]

\* Horizontal._master_decrease(factor)
HorizontalDecrease(s, step) ==
    LET wa == GetWorkarea(s)
        pixels == Trunc((factor[s] * wa.height) - ((factor[s] - step) * wa.height),
                        FactorDen)
    IN  [j \in 1 .. Len(slaves[s]) |->
            LET slave == windows[slaves[s][j]]
            IN  Call(slaves[s][j], slave.x, slave.y - pixels,
                     slave.width, slave.height + pixels)]
        \o
        [i \in 1 .. Len(masters[s]) |->
            LET master == windows[masters[s][i]]
            IN  Call(masters[s][i], master.x, master.y,
                     master.width, master.height - pixels)]

(***************************************************************************)
(* Handlers of the tiling skeleton                                         *)
(***************************************************************************)
\* tile(): a tiling pass if the screen is dirty, nothing otherwise
Tile(s) ==
    LET st == SyncStorage(s)
        cs == TileHookCalls(s, st.masters, st.slaves, factor[s])
    IN  /\ s \in ScreenIds
        /\ lastOp' = Op("tile", 0, s, <<pending[s], dirty[s]>>)
        /\ pending' = [pending EXCEPT ![s] = 0]
        /\ marks' = NoMarks
        /\ IF dirty[s]
           THEN /\ masters' = [masters EXCEPT ![s] = st.masters]
                /\ slaves' = [slaves EXCEPT ![s] = st.slaves]
                /\ windows' = ApplyCalls(windows, cs)
                /\ calls' = cs
                /\ sent' = Requests(windows, cs)
                /\ passes' = 1
                /\ dirty' = [dirty EXCEPT ![s] = FALSE]
           ELSE /\ calls' = <<>> /\ sent' = <<>> /\ passes' = 0
                /\ UNCHANGED <<masters, slaves, windows, dirty>>
        /\ batch' = IF \A t \in ScreenIds : t = s \/ ~dirty[t] THEN 0 ELSE batch
        /\ UNCHANGED <<screens, universe, members, factor, listening, active>>

\* the layout's _tile() hook run on its own (a re-tile of a clean screen)
TileHook(s) ==
    LET cs == TileHookCalls(s, masters[s], slaves[s], factor[s])
    IN  /\ s \in ScreenIds
        /\ ~dirty[s]
        /\ windows' = ApplyCalls(windows, cs)
        /\ calls' = cs
        /\ sent' = Requests(windows, cs)
        /\ passes' = 1
        /\ marks' = NoMarks
        /\ lastOp' = Op("_tile", 0, s, <<passes = 1 /\ lastOp.screen = s>>)
        /\ UNCHANGED <<screens, universe, members, dirty, masters, slaves, factor,
                       listening, active, batch, pending>>

\* the early return without the test of the masters
RoleEmptySlavesOnly(s) == slaves[s] = <<>>

\* _master_increase / _master_decrease: "if not slaves or not masters: return"
RoleEmpty(s) == slaves[s] = <<>> \/ masters[s] = <<>>

\* master_increase(factor) on a clean screen
MasterIncrease(s, step) ==
    LET cs == IF screens[s].tiler = "Vertical" THEN VerticalIncrease(s, step)
              ELSE HorizontalIncrease(s, step)
        noop == RoleEmpty(s)
    IN  /\ s \in ScreenIds
        /\ ~dirty[s]
        /\ factor[s] + step <= universe.maxFactor
        /\ lastOp' = Op("master_increase", 0, s, <<step, factor[s], windows>>)
        /\ marks' = NoMarks /\ passes' = 0
        /\ IF noop
           THEN /\ calls' = <<>> /\ sent' = <<>>
                /\ UNCHANGED <<windows, factor>>
           ELSE /\ factor' = [factor EXCEPT ![s] = @ + step]
                /\ windows' = ApplyCalls(windows, cs)
                /\ calls' = cs
                /\ sent' = Requests(windows, cs)
        /\ UNCHANGED <<screens, universe, members, dirty, masters, slaves,
                       listening, active, batch, pending>>

\* master_decrease(factor) on a clean screen
MasterDecrease(s, step) ==
    LET cs == IF screens[s].tiler = "Vertical" THEN VerticalDecrease(s, step)
              ELSE HorizontalDecrease(s, step)
        noop == RoleEmpty(s)
    IN  /\ s \in ScreenIds
        /\ ~dirty[s]
        /\ factor[s] - step >= universe.minFactor
        /\ lastOp' = Op("master_decrease", 0, s, <<step, factor[s], windows>>)
        /\ marks' = NoMarks /\ passes' = 0
        /\ IF noop
           THEN /\ calls' = <<>> /\ sent' = <<>>
                /\ UNCHANGED <<windows, factor>>
           ELSE /\ factor' = [factor EXCEPT ![s] = @ - step]
                /\ windows' = ApplyCalls(windows, cs)
                /\ calls' = cs
                /\ sent' = Requests(windows, cs)
        /\ UNCHANGED <<screens, universe, members, dirty, masters, slaves,
                       listening, active, batch, pending>>

\* promotion: the first slave becomes the last master, then the screen
\* is re-tiled
Promote(s) ==
    LET ms == Append(masters[s], Head(slaves[s]))
        sl == Tail(slaves[s])
        cs == TileHookCalls(s, ms, sl, factor[s])
    IN  /\ s \in ScreenIds
        /\ ~dirty[s]
        /\ slaves[s] # <<>>
        /\ masters' = [masters EXCEPT ![s] = ms]
        /\ slaves' = [slaves EXCEPT ![s] = sl]
        /\ windows' = ApplyCalls(windows, cs)
        /\ calls' = cs
        /\ sent' = Requests(windows, cs)
        /\ passes' = 1
        /\ marks' = NoMarks
        /\ lastOp' = Op("promote", 0, s, <<>>)
        /\ UNCHANGED <<screens, universe, members, dirty, factor, listening,
                       active, batch, pending>>

\* demotion: the last master becomes the first slave, then the screen
\* is re-tiled
Demote(s) ==
    LET n == Len(masters[s])
        ms == SubSeq(masters[s], 1, n - 1)
        sl == <<masters[s][n]>> \o slaves[s]
        cs == TileHookCalls(s, ms, sl, factor[s])
    IN  /\ s \in ScreenIds
        /\ ~dirty[s]
        /\ masters[s] # <<>>
        /\ masters' = [masters EXCEPT ![s] = ms]
        /\ slaves' = [slaves EXCEPT ![s] = sl]
        /\ windows' = ApplyCalls(windows, cs)
        /\ calls' = cs
        /\ sent' = Requests(windows, cs)
        /\ passes' = 1
        /\ marks' = NoMarks
        /\ lastOp' = Op("demote", 0, s, <<>>)
        /\ UNCHANGED <<screens, universe, members, dirty, factor, listening,
                       active, batch, pending>>

(***************************************************************************)
(* Initial states                                                          *)
(***************************************************************************)
Screen(desktop, vp, bounds, wa, tiler, margin) ==
    [desktop |-> desktop,
     vx |-> vp[1], vy |-> vp[2], vwidth |-> vp[3], vheight |-> vp[4],
     x |-> bounds[1], y |-> bounds[2], width |-> bounds[3], height |-> bounds[4],
     wx |-> wa[1], wy |-> wa[2], wwidth |-> wa[3], wheight |-> wa[4],
     tiler |-> tiler, margin |-> margin]

\* two desktops; desktop 0 has two screens side by side, desktop 1 has one
LifeScreens ==
    (1 :> Screen(0, <<0, 0, 2560, 800>>, <<0, 0, 1280, 800>>,
                 <<0, 20, 1280, 780>>, "Vertical", 0))
    @@ (2 :> Screen(0, <<0, 0, 2560, 800>>, <<1280, 0, 1280, 800>>,
                    <<1280, 0, 1280, 800>>, "Horizontal", 0))
    @@ (3 :> Screen(1, <<0, 0, 1280, 800>>, <<0, 0, 1280, 800>>,
                    <<0, 0, 1280, 800>>, "Vertical", 0))

LifeUniverse ==
    [ids |-> 1 .. MaxLifeWindows,
     positions |-> {<<10, 30>>, <<1300, 10>>, <<0 - 5, 10>>},
     sizes |-> {<<300, 200>>},
     desktops |-> {0, 1},
     newDesktops |-> {0, 1, 2},
     filters |-> << <<"x", "t">> >>,
     queryClasses |-> {},
     outcomes |-> {},
     classes |-> {GimpClass, XTermClass},
     hiddens |-> BOOLEAN,
     popups |-> BOOLEAN,
     rects |-> {<<0, 0, 640, 400>>, <<0, 0, 0, 400>>, <<0, 0, 640, 0>>,
                <<700, 500, 640, 400>>, <<1280, 0, 1280, 800>>,
                <<0 - 1, 0, 10, 10>>},
     steps |-> {},
     actives |-> 0 .. 1,
     maxBatch |-> MaxLifeBatch,
     factor0 |-> 10, minFactor |-> 10, maxFactor |-> 10]

\* one desktop with one screen, in either layout
TileScreens ==
    {(1 :> Screen(0, <<0, 0, 1280, 800>>, <<0, 0, 1280, 800>>, c[1], tiler, c[2])) :
        c \in {<< <<0, 0, 1280, 800>>, 0 >>, << <<3, 21, 1277, 779>>, 2 >>},
        tiler \in {"Vertical", "Horizontal"}}

TileUniverse(factor0) ==
    [ids |-> 1 .. MaxWindows,
     positions |-> {<<10, 30>>},
     sizes |-> {<<300, 200>>},
     desktops |-> {0},
     newDesktops |-> {0},
     filters |-> << <<"x", "t">> >>,
     queryClasses |-> {},
     outcomes |-> {},
     classes |-> {GimpClass},
     hiddens |-> {FALSE},
     popups |-> {FALSE},
     rects |-> {},
     steps |-> {1},
     actives |-> {0},
     maxBatch |-> MaxBatch,
     factor0 |-> factor0,
     minFactor |-> factor0 - FactorDown, maxFactor |-> factor0 + FactorUp]

\* the components a class tag may have, and the class tags built from them
QueryStrings ==
    {<<>>, <<"x">>, <<"x", "t">>, <<"X", "T">>, <<"g", "X", "t">>, <<"T", "x">>,
     <<"g">>, <<"G", "g">>}

QueryClasses == {NoClass} \cup {<<a, b>> : a, b \in QueryStrings}

\* the lists Config.filter() may return
QueryFilters ==
    {<<>>, << <<"x", "t">> >>, << <<"X", "T">> >>, << <<"g">>, <<"t", "x">> >>,
     << <<>> >>, << <<"G", "G">>, <<"x">> >>}

\* the outcomes of PROBE.get_window_geometry: success, or the error raised
GeometryOutcomes == {"ok", "BadWindow", "KeyError", "KeyboardInterrupt"}

QueryUniverse(filters) ==
    [LifeUniverse EXCEPT !.filters = filters, !.queryClasses = QueryClasses,
                         !.outcomes = GeometryOutcomes,
                         !.positions = {<<10, 30>>}, !.newDesktops = {0},
                         !.desktops = {0}, !.hiddens = {FALSE}, !.rects = {}]

InitWith(scr, uni) ==
    /\ screens = scr
    /\ universe = uni
    /\ windows = <<>>
    /\ batch = 0
    /\ members = [s \in DOMAIN scr |-> <<>>]
    /\ dirty = [s \in DOMAIN scr |-> FALSE]
    /\ masters = [s \in DOMAIN scr |-> <<>>]
    /\ slaves = [s \in DOMAIN scr |-> <<>>]
    /\ factor = [s \in DOMAIN scr |-> uni.factor0]
    /\ listening = {}
    /\ active = 0
    /\ lastOp = Op("init", 0, 0, <<>>)
    /\ calls = <<>>
    /\ sent = <<>>
    /\ marks = [s \in DOMAIN scr |-> 0]
    /\ passes = 0
    /\ pending = [s \in DOMAIN scr |-> 0]

Init == InitWith(LifeScreens, LifeUniverse)

\* the configured factor is 0.6 or 0.95
InitT == \E scr \in TileScreens, factor0 \in {12, 19} :
            InitWith(scr, TileUniverse(factor0))

\* the configuration holds any of the filter lists
InitQ == \E filters \in QueryFilters : InitWith(LifeScreens, QueryUniverse(filters))

\* the window lifecycle, the tiling pass and direct resizes
NextLife ==
    \/ \E id \in ScanNewWindows, attrs \in NewAttrs, a \in ActiveIds :
          LoadWindow(id, attrs, a)
    \/ \E w \in Tracked : \E upd \in ProbeAttrs(w), a \in ActiveIds :
          Refresh(w, upd, a)
    \/ \E w \in Tracked, a \in ActiveIds : Delete(w, a)
    \/ \E s \in ScreenIds : Tile(s)
    \/ \E w \in Tracked, r \in universe.rects : Resize(w, r[1], r[2], r[3], r[4])

\* admissions, deletions and the commands of the layouts
NextTile ==
    \/ \E id \in ScanNewWindows, attrs \in NewAttrs, a \in ActiveIds :
          LoadWindow(id, attrs, a)
    \/ \E w \in Tracked, a \in ActiveIds : Delete(w, a)
    \/ \E s \in ScreenIds : Tile(s)
    \/ \E s \in ScreenIds : TileHook(s)
    \/ \E s \in ScreenIds, step \in universe.steps : MasterIncrease(s, step)
    \/ \E s \in ScreenIds, step \in universe.steps : MasterDecrease(s, step)
    \/ \E s \in ScreenIds : Promote(s)
    \/ \E s \in ScreenIds : Demote(s)

\* admissions, deletions and the two queries on a window
NextQuery ==
    \/ \E id \in ScanNewWindows, attrs \in NewAttrs, a \in ActiveIds :
          LoadWindow(id, attrs, a)
    \/ \E w \in Tracked, a \in ActiveIds : Delete(w, a)
    \/ \E w \in Tracked, outcome \in universe.outcomes : Lives(w, outcome)
    \/ \E winclass \in universe.queryClasses : FilteredQuery(winclass)

\* window lifecycle on two desktops with three screens
Spec == Init /\ [][NextLife]_vars

\* the layouts on one screen
SpecT == InitT /\ [][NextTile]_vars

\* the queries filtered() and lives()
SpecQ == InitQ /\ [][NextQuery]_vars

(***************************************************************************)
(* Properties                                                              *)
(***************************************************************************)
\* the point (x, y) lies inside the bounds of screen s and of its viewport
Within(s, x, y) ==
    /\ screens[s].x <= x /\ x < screens[s].x + screens[s].width
    /\ screens[s].y <= y /\ y < screens[s].y + screens[s].height
    /\ screens[s].vx <= x /\ x < screens[s].vx + screens[s].vwidth
    /\ screens[s].vy <= y /\ y < screens[s].vy + screens[s].vheight

\* the last handler was a load_window that admitted, or a refresh of, a
\* window that is tracked
Reported == lastOp.op \in {"load_window", "refresh"} /\ lastOp.win \in Tracked

\* C1: every tracked window is a member of exactly one screen's window
\* collection, exactly once, and that screen is the one its owning-screen
\* back-reference names.
OneOwningScreen ==
    \A w \in Tracked :
        /\ {s \in ScreenIds : w \in SeqSet(members[s])} = {windows[w].screen}
        /\ Len(SelectSeq(members[windows[w].screen], LAMBDA v : v = w)) = 1

\* C1 witness: a refresh has moved a tracked window to a screen of another desktop
RelocatedAcrossDesktops ==
    /\ lastOp.op = "refresh"
    /\ screens[windows[lastOp.win].screen].desktop # screens[lastOp.screen].desktop

\* C2 as stated: after load_window and refresh the bounds of the owning screen
\* contain the last reported position, and the owning screen belongs to the
\* last reported desktop, whatever the probe reported.
OwnerContainsReported ==
    Reported =>
        LET w == lastOp.win
            s == windows[w].screen
        IN  /\ Within(s, lastOp.args[1], lastOp.args[2])
            /\ screens[s].desktop = windows[w].desktop

\* C2 amended: when the last reported position lies inside some screen of the
\* last reported desktop, the owning screen is a screen of that desktop whose
\* bounds contain the position.
OwnerContainsPlaceable ==
    (/\ Reported
     /\ \E t \in ScreenIds : /\ screens[t].desktop = windows[lastOp.win].desktop
                             /\ Within(t, lastOp.args[1], lastOp.args[2]))
    => LET w == lastOp.win
           s == windows[w].screen
       IN  /\ Within(s, lastOp.args[1], lastOp.args[2])
           /\ screens[s].desktop = windows[w].desktop

\* C2 witness: a refresh reported a position on another screen and the window
\* is now owned by the screen that contains it
RelocatedToReported ==
    /\ lastOp.op = "refresh"
    /\ windows[lastOp.win].screen # lastOp.screen
    /\ Within(windows[lastOp.win].screen, lastOp.args[1], lastOp.args[2])

\* C3: when refresh reports a position inside a screen (of the reported
\* desktop) other than the owning screen, the window leaves the old screen's
\* membership, joins the new one's, both screens are marked dirty exactly
\* once and the owning-screen reference names the new screen.
RelocationMovesAndMarksOnce ==
    lastOp.op = "refresh" =>
        LET w == lastOp.win
            old == lastOp.screen
        IN  \A new \in ScreenIds \ {old} :
                (/\ screens[new].desktop = windows[w].desktop
                 /\ Within(new, lastOp.args[1], lastOp.args[2]))
                => /\ w \notin SeqSet(members[old])
                   /\ w \in SeqSet(members[new])
                   /\ marks[old] = 1 /\ marks[new] = 1
                   /\ dirty[old] /\ dirty[new]
                   /\ windows[w].screen = new

\* C3 witness: a refresh relocated the window and marked both screens
RelocationMarkedBoth ==
    /\ lastOp.op = "refresh"
    /\ windows[lastOp.win].screen # lastOp.screen
    /\ marks[lastOp.screen] = 1
    /\ marks[windows[lastOp.win].screen] = 1
    /\ lastOp.win \in SeqSet(members[windows[lastOp.win].screen])

\* the windows of screen s that are tracked, not hidden and not filtered
Tileable(s) ==
    {w \in SeqSet(members[s]) \cap Tracked :
        ~windows[w].hidden /\ ~Filtered(windows[w].winclass)}

Overlap(a, b) ==
    /\ a.x < b.x + b.width /\ b.x < a.x + a.width
    /\ a.y < b.y + b.height /\ b.y < a.y + a.height

\* the last handler ran the layout's _tile hook
PassRan == passes = 1

\* C5 as stated: after a tiling pass of the Vertical or Horizontal layout no
\* two tiled windows of the screen have overlapping stored rectangles.
TilesDoNotOverlap ==
    PassRan =>
        LET st == masters[lastOp.screen] \o slaves[lastOp.screen]
        IN  \A i, j \in 1 .. Len(st) :
                i < j => ~Overlap(windows[st[i]], windows[st[j]])

\* the rectangle lies inside the bounds of screen s
RectInside(s, x, y, width, height) ==
    /\ screens[s].x <= x /\ screens[s].y <= y
    /\ x + width <= screens[s].x + screens[s].width
    /\ y + height <= screens[s].y + screens[s].height

Geometry(win) == <<win.x, win.y, win.width, win.height>>

\* C6: resize(x, y, w, h) with w < 1 or h < 1 or a rectangle that is not
\* inside the owning screen's bounds leaves the stored geometry unchanged and
\* sends nothing to the probe; every other resize sends exactly one request
\* and stores exactly (x, y, w, h).
ResizeRejectsOrStores ==
    [][lastOp'.op = "resize" =>
        LET w == lastOp'.win
            r == lastOp'.args
        IN  IF r[3] < 1 \/ r[4] < 1
               \/ ~RectInside(windows[w].screen, r[1], r[2], r[3], r[4])
            THEN /\ Geometry(windows'[w]) = Geometry(windows[w])
                 /\ sent' = <<>>
            ELSE /\ Geometry(windows'[w]) = r
                 /\ sent' = <<Call(w, r[1], r[2], r[3], r[4])>>]_vars

\* C6 witness: a resize to a rectangle outside the owning screen was rejected
\* on a window that had been tiled before
ResizeRejected ==
    /\ lastOp.op = "resize"
    /\ ~RectInside(lastOp.screen, lastOp.args[1], lastOp.args[2],
                   lastOp.args[3], lastOp.args[4])
    /\ lastOp.args[3] >= 1 /\ lastOp.args[4] >= 1
    /\ sent = <<>>
    /\ windows[lastOp.win].x # 0

\* C7: a _tile pass that directly follows a tiling pass on the same screen
\* leaves the stored geometry of every window as the first pass left it.
TileIsIdempotent ==
    [][(/\ PassRan
        /\ lastOp'.op = "_tile"
        /\ lastOp'.screen = lastOp.screen)
       => windows' = windows]_vars

\* C7 witness: _tile ran directly after a tiling pass of the same screen and
\* resized a master and a slave
TiledTwice ==
    /\ lastOp.op = "_tile"
    /\ lastOp.args[1]
    /\ Len(sent) >= 2
    /\ masters[lastOp.screen] # <<>> /\ slaves[lastOp.screen] # <<>>

\* C8: a tile() that follows one or more admissions, deletes, relocations or
\* hidden-flag changes on a screen runs _tile exactly once and leaves the
\* flag clear; a further tile() with no event in between runs no pass.
EventsCoalesce ==
    [][/\ (lastOp'.op = "tile" /\ pending[lastOp'.screen] >= 1)
          => (passes' = 1 /\ ~dirty'[lastOp'.screen])
       /\ (lastOp.op = "tile" /\ lastOp'.op = "tile"
           /\ lastOp'.screen = lastOp.screen)
          => passes' = 0]_vars

\* C8 witness: one tiling pass served two events on the same screen
CoalescedPass ==
    /\ lastOp.op = "tile"
    /\ lastOp.args[1] >= 2
    /\ passes = 1
    /\ ~dirty[lastOp.screen]

\* C9: Vertical._tile with work area (x, y, W, H), width_factor f, margin 0
\* and m >= 1 masters asks for (x, y + i*(H div m), trunc(f*W), H div m) for
\* the i-th master and (x + trunc(f*W), y + j*(H div s), W - trunc(f*W),
\* H div s) for the j-th slave, and for the full width W for the masters when
\* there is no slave; a rectangle of positive size inside the screen becomes
\* the window's stored geometry.  W = 1280, H = 800, f = 0.6, two masters and
\* one slave give (0,0,768,400), (0,400,768,400) and (768,0,512,800).
VerticalRectangles ==
    (/\ PassRan
     /\ screens[lastOp.screen].tiler = "Vertical"
     /\ screens[lastOp.screen].margin = 0
     /\ masters[lastOp.screen] # <<>>)
    => LET s == lastOp.screen
           x == screens[s].wx
           y == screens[s].wy
           W == screens[s].wwidth
           H == screens[s].wheight
           m == Len(masters[s])
           n == Len(slaves[s])
           fW == IF factor[s] >= 0 THEN (factor[s] * W) \div FactorDen
                 ELSE 0 - (((0 - factor[s]) * W) \div FactorDen)
           mw == IF n = 0 THEN W ELSE fW
       IN  /\ Len(calls) = m + n
           /\ \A i \in 1 .. m :
                 calls[i] = Call(masters[s][i], x, y + (i - 1) * (H \div m),
                                 mw, H \div m)
           /\ \A j \in 1 .. n :
                 calls[m + j] = Call(slaves[s][j], x + fW, y + (j - 1) * (H \div n),
                                     W - fW, H \div n)
           /\ \A k \in 1 .. Len(calls) :
                 (/\ calls[k].width >= 1 /\ calls[k].height >= 1
                  /\ RectInside(s, calls[k].x, calls[k].y,
                                calls[k].width, calls[k].height))
                 => Geometry(windows[calls[k].win])
                      = <<calls[k].x, calls[k].y, calls[k].width, calls[k].height>>
           /\ (/\ <<x, y, W, H>> = <<0, 0, 1280, 800>>
               /\ factor[s] * 5 = 3 * FactorDen /\ m = 2 /\ n = 1)
              => /\ Geometry(windows[masters[s][1]]) = <<0, 0, 768, 400>>
                 /\ Geometry(windows[masters[s][2]]) = <<0, 400, 768, 400>>
                 /\ Geometry(windows[slaves[s][1]]) = <<768, 0, 512, 800>>

\* C9 witness: the Vertical layout tiled two masters and one slave on the
\* work area (0, 0, 1280, 800) with width_factor 0.6 and margin 0
VerticalExampleTiled ==
    /\ PassRan
    /\ screens[lastOp.screen].tiler = "Vertical"
    /\ screens[lastOp.screen].margin = 0
    /\ GetWorkarea(lastOp.screen) = [x |-> 0, y |-> 0, width |-> 1280, height |-> 800]
    /\ factor[lastOp.screen] * 5 = 3 * FactorDen
    /\ Len(masters[lastOp.screen]) = 2
    /\ Len(slaves[lastOp.screen]) = 1
    /\ Geometry(windows[slaves[lastOp.screen][1]]) = <<768, 0, 512, 800>>

\* each of x, y, width and height differs by at most one pixel
Near(a, b) ==
    \A k \in 1 .. 4 :
        Geometry(a)[k] - Geometry(b)[k] \in {0 - 1, 0, 1}

\* C10 as stated: with both roles non-empty, master_increase(f) directly
\* followed by master_decrease(f) restores the factor and restores every
\* master's and slave's stored geometry to within one pixel.
IncreaseDecreaseRestores ==
    [][(/\ lastOp.op = "master_increase"
        /\ lastOp'.op = "master_decrease"
        /\ lastOp'.screen = lastOp.screen
        /\ lastOp'.args[1] = lastOp.args[1]
        /\ masters[lastOp.screen] # <<>>
        /\ slaves[lastOp.screen] # <<>>)
       => /\ factor'[lastOp.screen] = lastOp.args[2]
          /\ \A w \in SeqSet(masters[lastOp.screen] \o slaves[lastOp.screen]) :
                Near(windows'[w], lastOp.args[3][w])]_vars


\* C11: master_increase and master_decrease on a screen whose masters or
\* slaves sequence is empty keep the proportion factor, change no window's
\* stored geometry and send no resize request.
EmptyRoleIsNoOp ==
    [][(/\ lastOp'.op \in {"master_increase", "master_decrease"}
        /\ (masters[lastOp'.screen] = <<>> \/ slaves[lastOp'.screen] = <<>>))
       => /\ factor' = factor
          /\ windows' = windows
          /\ calls' = <<>>
          /\ sent' = <<>>]_vars

\* C11 witness: master_increase ran on a screen with a master and no slave
IncreaseWithoutSlaves ==
    /\ lastOp.op = "master_increase"
    /\ masters[lastOp.screen] # <<>>
    /\ slaves[lastOp.screen] = <<>>
    /\ factor[lastOp.screen] = lastOp.args[2]
    /\ sent = <<>>


\* C12 as stated: load_window admits a window only if it is not a popup, its
\* desktop is known and no filter matches it; for a window failing one of
\* these no entity is registered for change notifications, no screen's
\* membership changes and no screen is marked dirty.
RejectedLeavesNoTrace ==
    [][lastOp'.op = "load_window" =>
        /\ lastOp'.win \in DOMAIN windows' => ~lastOp'.args[3]
        /\ lastOp'.args[3] => /\ windows' = windows
                              /\ listening' = listening
                              /\ members' = members
                              /\ marks' = NoMarks
                              /\ dirty' = dirty]_vars


\* the two letters are equal up to case
SameLetter(a, b) ==
    \/ a = b
    \/ {a, b} \in {{"x", "X"}, {"t", "T"}, {"g", "G"}}

\* C13: filtered() returns true exactly when one of the two components of
\* the class tag contains, up to case, one of the configured filter strings
\* as a substring; it returns false without a class tag and with an empty
\* filter list.
FilteredIffSubstring ==
    lastOp.op = "filtered" =>
        LET tag == lastOp.args[1]
            fs == universe.filters
        IN  /\ lastOp.args[2]
                = (/\ tag # <<>>
                   /\ \E i \in 1 .. 2, k \in 1 .. Len(fs) :
                        \E o \in 0 .. Len(tag[i]) :
                            /\ o + Len(fs[k]) <= Len(tag[i])
                            /\ \A j \in 1 .. Len(fs[k]) :
                                  SameLetter(tag[i][o + j], fs[k][j]))
            /\ tag = <<>> => ~lastOp.args[2]
            /\ fs = <<>> => ~lastOp.args[2]

\* C13 witness: the filter "XT" matched inside the second component "gXt"
FilteredSecondComponent ==
    /\ lastOp.op = "filtered"
    /\ lastOp.args[1] = << <<"g">>, <<"g", "X", "t">> >>
    /\ universe.filters = << <<"X", "T">> >>
    /\ lastOp.args[2]


\* C17: lives() returns false for every failure of the probe's geometry
\* query and true when the query succeeds, lets no error through to its
\* caller and changes no window or screen state.
LivesNeverRaises ==
    [][lastOp'.op = "lives" =>
        /\ ~lastOp'.args[3]
        /\ lastOp'.args[2] = (lastOp'.args[1] = "ok")
        /\ UNCHANGED <<windows, members, dirty, masters, slaves, factor,
                       listening, active>>]_vars

\* C17 witness: lives() answered false to a query that was interrupted
LivesCaughtInterrupt ==
    /\ lastOp.op = "lives"
    /\ lastOp.args[1] = "KeyboardInterrupt"
    /\ ~lastOp.args[2] /\ ~lastOp.args[3]


\* C14: refresh() leaves the stored width and height as they were, whatever
\* width and height the probe reports, while the stored desktop and hidden
\* flag take the probe's values.
RefreshKeepsSize ==
    [][lastOp'.op = "refresh" =>
        LET w == lastOp'.win
        IN  /\ windows'[w].width = windows[w].width
            /\ windows'[w].height = windows[w].height
            /\ windows'[w].desktop = lastOp'.args[5]
            /\ windows'[w].hidden = lastOp'.args[6]]_vars

\* C14 witness: a refresh of a tiled window for which the probe reported a
\* width other than the stored one
RefreshIgnoredProbeSize ==
    /\ lastOp.op = "refresh"
    /\ windows[lastOp.win].width # lastOp.args[3]
    /\ windows[lastOp.win].height # lastOp.args[4]

\* C15: a refresh() that reports the desktop of the window's current screen
\* and a position inside the current viewport and screen changes no
\* membership and not the owning screen; it marks the current screen, and
\* no other, dirty when the hidden flag changed and marks none otherwise.
InPlaceRefreshMarksOnHidden ==
    [][(/\ lastOp'.op = "refresh"
        /\ lastOp'.args[5] = screens[windows[lastOp'.win].screen].desktop
        /\ Within(windows[lastOp'.win].screen, lastOp'.args[1], lastOp'.args[2]))
       => LET w == lastOp'.win
              cur == windows[w].screen
              changed == windows[w].hidden # lastOp'.args[6]
          IN  /\ members' = members
              /\ windows'[w].screen = cur
              /\ marks' = [s \in ScreenIds |-> IF s = cur /\ changed THEN 1 ELSE 0]
              /\ dirty' = [s \in ScreenIds |-> dirty[s] \/ (s = cur /\ changed)]]_vars

\* C15 witness: a refresh in place found the hidden flag changed and marked
\* the window's screen alone
HiddenChangedInPlace ==
    /\ lastOp.op = "refresh"
    /\ windows[lastOp.win].screen = lastOp.screen
    /\ Within(lastOp.screen, lastOp.args[1], lastOp.args[2])
    /\ marks[lastOp.screen] = 1
    /\ \A s \in ScreenIds \ {lastOp.screen} : marks[s] = 0

\* C16: delete() removes the window from its owning screen's membership,
\* marks that screen and no other dirty, and afterwards the active-window
\* reference does not refer to the deleted window.
DeleteLeavesScreen ==
    [][lastOp'.op = "delete" =>
        LET w == lastOp'.win
            s == windows[w].screen
        IN  /\ members' = [members EXCEPT ![s] = SelectSeq(@, LAMBDA v : v # w)]
            /\ \A t \in ScreenIds : w \notin SeqSet(members'[t])
            /\ marks' = [t \in ScreenIds |-> IF t = s THEN 1 ELSE 0]
            /\ dirty' = [dirty EXCEPT ![s] = TRUE]
            /\ active' # w]_vars

\* C16 witness: the window deleted was the active one, and the probe still
\* named it as active
DeletedActiveWindow ==
    /\ lastOp.op = "delete"
    /\ lastOp.args[1]
    /\ active = 0
    /\ lastOp.win \notin Tracked


\* a resize call, a work area and a window table with the two axes exchanged
SwapCall(c) ==
    [win |-> c.win, x |-> c.y, y |-> c.x, width |-> c.height, height |-> c.width]

SwapCalls(cs) == [k \in 1 .. Len(cs) |-> SwapCall(cs[k])]

SwapArea(wa) == [x |-> wa.y, y |-> wa.x, width |-> wa.height, height |-> wa.width]

SwapWindows(ws) ==
    [w \in DOMAIN ws |->
        [ws[w] EXCEPT !.x = ws[w].y, !.y = ws[w].x,
                      !.width = ws[w].height, !.height = ws[w].width]]

\* C18: the rectangles Horizontal._tile requests with height_factor f on the
\* work area (x, y, W, H) are the rectangles, with the axes exchanged, that
\* Vertical._tile requests with width_factor f for the same windows on the
\* work area (y, x, H, W); the requests of the two layouts' master_increase
\* and master_decrease correspond in the same way.
HorizontalIsTransposedVertical ==
    (/\ lastOp.op \in {"tile", "_tile", "promote", "demote",
                       "master_increase", "master_decrease"}
     /\ screens[lastOp.screen].tiler = "Horizontal")
    => LET s == lastOp.screen
           wa == SwapArea(GetWorkarea(s))
       IN  /\ PassRan
              => calls = SwapCalls(VerticalRects(wa, screens[s].margin, masters[s],
                                                 slaves[s], factor[s]))
           /\ (lastOp.op = "master_increase" /\ ~RoleEmpty(s))
              => calls = SwapCalls(VerticalIncreaseCalls(
                                       wa, lastOp.args[2], SwapWindows(lastOp.args[3]),
                                       masters[s], slaves[s], lastOp.args[1]))
           /\ (lastOp.op = "master_decrease" /\ ~RoleEmpty(s))
              => calls = SwapCalls(VerticalDecreaseCalls(
                                       wa, lastOp.args[2], SwapWindows(lastOp.args[3]),
                                       masters[s], slaves[s], lastOp.args[1]))

\* C18 witness: the Horizontal layout tiled a master and two slaves on the
\* work area (3, 21, 1277, 779) with margin 2
HorizontalTiledThree ==
    /\ PassRan
    /\ screens[lastOp.screen].tiler = "Horizontal"
    /\ screens[lastOp.screen].margin = 2
    /\ Len(masters[lastOp.screen]) = 1
    /\ Len(slaves[lastOp.screen]) = 2
    /\ Len(sent) = 3

RECURSIVE SumSeq(_)
SumSeq(seq) == IF seq = <<>> THEN 0 ELSE Head(seq) + SumSeq(Tail(seq))

\* the sizes _tile allots along the shared dimension to the windows whose
\* calls are cs: the requested size and the margin on either side
Allotted(cs, s) ==
    [k \in 1 .. Len(cs) |->
        (IF screens[s].tiler = "Vertical" THEN cs[k].height ELSE cs[k].width)
        + 2 * screens[s].margin]

\* C19: in a tiling pass of either layout the sizes allotted to the n >= 1
\* windows of a role along the dimension D they share (the height of the
\* work area for Vertical, the width for Horizontal) sum to at most D and to
\* at least D - (n - 1).
RoleSizesSumToDimension ==
    PassRan =>
        LET s == lastOp.screen
            D == IF screens[s].tiler = "Vertical" THEN GetWorkarea(s).height
                 ELSE GetWorkarea(s).width
            m == Len(masters[s])
            n == Len(slaves[s])
            ofMasters == SumSeq(Allotted(SubSeq(calls, 1, m), s))
            ofSlaves == SumSeq(Allotted(SubSeq(calls, m + 1, m + n), s))
        IN  /\ Len(calls) = m + n
            /\ m >= 1 => (ofMasters <= D /\ ofMasters >= D - (m - 1))
            /\ n >= 1 => (ofSlaves <= D /\ ofSlaves >= D - (n - 1))

\* C19 witness: a pass divided the shared dimension among three windows of
\* one role and the division left a remainder
RoleSumBelowDimension ==
    /\ PassRan
    /\ Len(slaves[lastOp.screen]) = 3
    /\ SumSeq(Allotted(calls, lastOp.screen))
         < (IF screens[lastOp.screen].tiler = "Vertical"
            THEN GetWorkarea(lastOp.screen).height
            ELSE GetWorkarea(lastOp.screen).width)

\* C20 as stated: after tiling passes, master_increase and master_decrease
\* the stored rectangle of every tiled window lies inside the work area of
\* its screen.
TiledInsideWorkArea ==
    lastOp.op \in {"tile", "_tile", "promote", "demote",
                   "master_increase", "master_decrease"}
    => LET s == lastOp.screen
           wa == GetWorkarea(s)
       IN  \A w \in SeqSet(masters[s] \o slaves[s]) :
               /\ wa.x <= windows[w].x
               /\ wa.y <= windows[w].y
               /\ windows[w].x + windows[w].width <= wa.x + wa.width
               /\ windows[w].y + windows[w].height <= wa.y + wa.height


\* the windows of screen s that a tiling pass would arrange now, and those
\* the last tiling pass of s arranged
TileableNow(s) == SeqSet(Tiling(s))

TiledAtLastPass(s) == SeqSet(masters[s] \o slaves[s])

\* C21 as stated: after any sequence of load_window, refresh and delete events
\* every screen whose set of members that are not hidden differs from the set
\* it had at its last tiling pass has its dirty flag set; a refresh that
\* changes a window's hidden flag leaves the window's owning screen dirty
\* whatever position and desktop it reports.
DirtyCoversTileableChange ==
    [][/\ \A s \in ScreenIds :
             (TileableNow(s) # TiledAtLastPass(s))' => dirty'[s]
       /\ (/\ lastOp'.op = "refresh"
           /\ windows[lastOp'.win].hidden # lastOp'.args[6])
          => dirty'[windows'[lastOp'.win].screen]]_vars


\* the window table a full _tile pass of screen s would leave now
AfterFullPass(s) ==
    ApplyCalls(windows, VerticalTile(s, masters[s], slaves[s], factor[s]))

\* C22 as stated: in the Vertical layout with both roles non-empty and
\* geometry that came from a tiling pass, master_increase and master_decrease
\* leave every window's stored geometry within one pixel of what a full _tile
\* pass with the updated width_factor would store, for every factor reached
\* by repeated increases and decreases, rejected resizes included.
IncreaseAgreesWithTile ==
    (/\ lastOp.op \in {"master_increase", "master_decrease"}
     /\ screens[lastOp.screen].tiler = "Vertical"
     /\ masters[lastOp.screen] # <<>>
     /\ slaves[lastOp.screen] # <<>>)
    => \A w \in SeqSet(masters[lastOp.screen] \o slaves[lastOp.screen]) :
           Near(windows[w], AfterFullPass(lastOp.screen)[w])

====
